---- MODULE Spec2Model ----
(***************************************************************************)
(* StorageManager (utils/storage): the persistence facade over the remote  *)
(* record store (blink.db) and the browser's localStorage.                 *)
(*                                                                         *)
(* A call of a facade method is a record that says where the call stands  *)
(* (pc), what it was given and what it holds.  A step takes one call from  *)
(* one await to the next: a remote request is answered, or the call goes   *)
(* on after an await that was settled.  Between two steps of a call any    *)
(* other call in flight may take steps.  The pieces of a method that run   *)
(* without awaiting are operators over a context record                    *)
(*   [avail, db, ls, o, trace]                                             *)
(* avail = this.dbAvailable, db = the remote tables, ls = localStorage,    *)
(* o = the answer (TRUE = resolves, FALSE = rejects) of the request being  *)
(* answered, trace = the requests and local accesses of the piece.         *)
(***************************************************************************)
EXTENDS Integers, Sequences, FiniteSets, TLC

VARIABLES
    dbAvailable,    \* StorageManager.dbAvailable
    db,             \* remote store: [videoSessions, pauseInsights], rows in insertion order
    localStorage,   \* window.localStorage: key -> item
    clock,          \* wall clock read by the callers (Date.now())
    lastOp,         \* the call that returned last: what it was given, did and returned
    lastSaved,      \* history: per (user, video) the session of the last saveVideoSession that returned
    nSaved,         \* history: per (user, video) how many saveVideoSession calls returned
    insightLog,     \* history: per session id the insights whose savePauseInsight returned, in call order
    backendUp,      \* environment: whether the backend answered its last request
    flips,          \* environment: how often the backend went down or came back so far
    twin,           \* two facades given the same calls, each with the call in flight on it: [up] backend always answering, [down] backend absent
    twinOut,        \* what the last getVideoSessions returned in each of the two
    calls,          \* the calls in flight together: per caller where the call stands and what it holds
    app,            \* the components: App's state, the Dashboard's and the player's state, the handlers in flight, the last start and pause
    overlapped      \* history: whether a call was ever made while another call was in flight

vars == <<dbAvailable, db, localStorage, clock, lastOp, lastSaved, nSaved, insightLog,
          backendUp, flips, twin, twinOut, calls, app, overlapped>>

-----------------------------------------------------------------------------
(* Bounds and input sets *)

\* number of save calls (of either kind) in one run
MaxClock == 2
\* the same, in the runs where the backend is absent
MaxOfflineClock == 3
\* the same, in the runs that fill the stores past the limit of 20
MaxCapClock == 22
\* how often the backend may go down or come back in those runs
MaxFlips == 2
\* the same for the two facades run side by side
MaxTwinClock == 3
MaxFlagClock == 2
MaxRewatches == 1
MaxInFlightClock == 2
MaxStarts == 3
MaxPlayerClock == 2
\* how often the auth state changes in one run
MaxAuths == 3
MaxStepsClock == 1

Users == {"u1", "u2"}
Videos == {"v1", "v2"}
\* who saves a session: the dashboard starting a video (a fresh session) or a
\* caller reporting progress; each generates its own, globally unique, id
SessionKinds == {"fresh", "watched"}
InsightSessions == {"sess1"}
PauseTimes == {30, 90}
\* what the generative-text service does with one prompt: text that is the JSON asked
\* for, text that is not JSON, a rejection
AiAnswers == {"json", "text", "error"}
\* the playback times at which the player is paused
PlayerTimes == {10, 30}

\* src: `limit: 20` of the remote list query
ListLimit == 20
\* src: sessions.slice(0, 20)
KeepLimit == 20
\* src: sessions.slice(0, 6), and prev.slice(0, 5) under the new session
ShownLimit == 6

-----------------------------------------------------------------------------
(* Records *)

\* interface VideoSession, as Dashboard.handleStartLearning builds it (fresh)
\* or as a caller passes it after some watching.
VideoSession(u, v, kind, now) ==
    [ id           |-> <<"session", u, v, kind>>,
      video_id     |-> v,
      title        |-> IF kind = "watched" THEN "Video" ELSE "Loading...",
      thumbnail    |-> <<"thumbnail", v>>,
      progress     |-> IF kind = "watched" THEN 120 ELSE 0,
      duration     |-> IF kind = "watched" THEN 600 ELSE 0,
      last_watched |-> now,
      user_id      |-> u ]

\* interface PauseInsight, as VideoPlayer.handlePause builds it
PauseInsight(s, t, now) ==
    [ id             |-> <<"insight", now>>,
      session_id     |-> s,
      timestamp      |-> t,
      summary        |-> "summary",
      flashcards     |-> <<[question |-> "Q1?", answer |-> "A1"]>>,
      quiz_questions |-> <<[question |-> "Quiz?", options |-> <<"A", "B">>, correct |-> 0]>>,
      user_id        |-> "u1",
      created_at     |-> now ]

\* the object passed to blink.db.videoSessions.create
SessionRow(session) ==
    [ id          |-> session.id,
      videoId     |-> session.video_id,
      title       |-> session.title,
      thumbnail   |-> session.thumbnail,
      progress    |-> session.progress,
      duration    |-> session.duration,
      lastWatched |-> session.last_watched,
      userId      |-> session.user_id ]

\* the object passed to blink.db.videoSessions.update
SessionPatch(row, session) ==
    [ row EXCEPT !.title       = session.title,
                 !.progress    = session.progress,
                 !.duration    = session.duration,
                 !.lastWatched = session.last_watched ]

\* the object passed to blink.db.pauseInsights.create
InsightRow(insight) ==
    [ id            |-> insight.id,
      sessionId     |-> insight.session_id,
      timestamp     |-> insight.timestamp,
      summary       |-> insight.summary,
      flashcards    |-> insight.flashcards,
      quizQuestions |-> insight.quiz_questions,
      userId        |-> insight.user_id,
      createdAt     |-> insight.created_at ]

-----------------------------------------------------------------------------
(* localStorage items and JSON *)

VideoSessionsKey(userId) == <<"video_sessions_", userId>>
PauseInsightsKey(sessionId) == <<"pause_insights_", sessionId>>
\* src: `session_${videoId}_${user.id}`, the session id the player gives its insights
PlayerSessionId(videoId, userId) == "session_" \o videoId \o "_" \o userId
PlayerSessions == {PlayerSessionId("v1", u) : u \in Users}
Keys == {VideoSessionsKey(u) : u \in Users}
            \cup {PauseInsightsKey(s) : s \in InsightSessions \cup PlayerSessions}

\* getItem of a key never set
NullItem == [kind |-> "null", json |-> <<>>]
\* a stored string that is not JSON
GarbageItem == [kind |-> "garbage", json |-> <<>>]

JSONstringify(list) == [kind |-> "text", json |-> list]
JSONparses(item) == item.kind = "text"
JSONparse(item) == item.json

-----------------------------------------------------------------------------
(* Sequence helpers *)

Min(a, b) == IF a < b THEN a ELSE b

\* a slice that keeps one element too many
SliceOneMore(s, n) == SubSeq(s, 1, Min(Len(s), n + 1))

\* Array.prototype.slice(0, n)
Slice(s, n) == SubSeq(s, 1, Min(Len(s), n))

\* the first index whose flag is set; 0 when none is
FirstTrue(flags) ==
    IF \E i \in 1..Len(flags) : flags[i]
    THEN CHOOSE i \in 1..Len(flags) : flags[i] /\ \A j \in 1..(i - 1) : ~flags[j]
    ELSE 0

\* orderBy: { field: dir }: whether row a sorts strictly before row b
Before(a, b, field, dir) ==
    IF dir = "desc" THEN a[field] > b[field] ELSE a[field] < b[field]

\* x put before the first row it must precede
InsertSorted(s, x, field, dir) ==
    LET at == FirstTrue([i \in 1..Len(s) |-> Before(x, s[i], field, dir)])
        pos == IF at = 0 THEN Len(s) + 1 ELSE at
    IN  SubSeq(s, 1, pos - 1) \o <<x>> \o SubSeq(s, pos, Len(s))

\* ORDER BY of the remote store: a stable sort
SortBy(s, field, dir) ==
    LET sorted[i \in 0..Len(s)] ==
            IF i = 0 THEN <<>> ELSE InsertSorted(sorted[i - 1], s[i], field, dir)
    IN  sorted[Len(s)]

-----------------------------------------------------------------------------
(* The remote store (blink.db) *)

EmptyDb == [videoSessions |-> <<>>, pauseInsights |-> <<>>]

\* what a list request resolves to: the selected rows as the store holds them,
\* under the names they were created with and are queried by
Resolved(rows) == rows

\* videoSessions.list({ where: { userId }, orderBy: { lastWatched: 'desc' }, limit: 20 })
ListSessionRows(rows, userId) ==
    LET Mine(r) == r.userId = userId
    IN  Resolved(Slice(SortBy(SelectSeq(rows, Mine), "lastWatched", "desc"), ListLimit))

\* videoSessions.list({ where: { videoId, userId }, limit: 1 })
FindSessionRows(rows, videoId, userId) ==
    LET Match(r) == r.videoId = videoId /\ r.userId = userId
    IN  Slice(SelectSeq(rows, Match), 1)

\* videoSessions.update(id, patch)
UpdateSessionRow(rows, id, session) ==
    [i \in 1..Len(rows) |-> IF rows[i].id = id THEN SessionPatch(rows[i], session) ELSE rows[i]]

\* pauseInsights.list({ where: { sessionId }, orderBy: { timestamp: 'asc' } })
ListInsightRows(rows, sessionId) ==
    LET Mine(r) == r.sessionId = sessionId
    IN  Resolved(SortBy(SelectSeq(rows, Mine), "timestamp", "asc"))

-----------------------------------------------------------------------------
(* Contexts *)

Ctx(avail, store, ls, o) ==
    [avail |-> avail, db |-> store, ls |-> ls, o |-> o, trace |-> <<>>]

\* the outcome of the next remote request
ReqOk(c) == Head(c.o)

\* a remote request is issued and answered
Request(c, name) ==
    [c EXCEPT !.o = Tail(@), !.trace = Append(@, [acc |-> name, ok |-> Head(c.o)])]

\* a localStorage access
Local(c, name, ok) == [c EXCEPT !.trace = Append(@, [acc |-> name, ok |-> ok])]

Return(c, value) == [c |-> c, ret |-> value, raised |-> FALSE]
Raise(c) == [c |-> c, ret |-> <<>>, raised |-> TRUE]

\* a catch block that leaves the flag alone
CatchRemoteKeepFlag(c) == c

\* the catch blocks: this.dbAvailable = false
CatchRemote(c) == [c EXCEPT !.avail = FALSE]

-----------------------------------------------------------------------------
(* StorageManager *)

\* checkDatabaseAvailability awaited by one of the four methods: the probe
\* request is answered and the flag set
CheckDatabaseAvailability(c) ==
    [Request(c, "probe") EXCEPT !.avail = ReqOk(c)]

\* what the probe request answers: it resolves, or it rejects with a
\* "database not found" error (status 404) or with any other error
ProbeAnswers == {"ok", "notFound", "transient"}

\* a probe that keeps the flag when the error is not "database not found"
CheckDatabaseAvailabilityCallLenient(c, answer) ==
    LET c1 == Request(c, "probe")
    IN  IF ReqOk(c)
        THEN [c |-> [c1 EXCEPT !.avail = TRUE], ret |-> <<TRUE>>, raised |-> FALSE, log |-> ""]
        ELSE IF answer = "notFound"
        THEN [c |-> [c1 EXCEPT !.avail = FALSE], ret |-> <<FALSE>>, raised |-> FALSE,
              log |-> "Database not found for this project, using localStorage fallback"]
        ELSE [c |-> c1, ret |-> <<c1.avail>>, raised |-> FALSE,
              log |-> "Database temporarily unavailable, using localStorage fallback:"]

\* checkDatabaseAvailability called by itself (Dashboard.loadRecentSessions),
\* with what it returns and what it logs
CheckDatabaseAvailabilityCall(c, answer) ==
    LET c1 == Request(c, "probe")
    IN  IF ReqOk(c)
        THEN [c |-> [c1 EXCEPT !.avail = TRUE], ret |-> <<TRUE>>, raised |-> FALSE, log |-> ""]
        ELSE [c |-> [c1 EXCEPT !.avail = FALSE], ret |-> <<FALSE>>, raised |-> FALSE,
              log |-> IF answer = "notFound"
                      THEN "Database not found for this project, using localStorage fallback"
                      ELSE "Database temporarily unavailable, using localStorage fallback:"]

\* a localStorage branch that forgets the stored list
GetVideoSessionsLocalEmpty(c, userId) == Return(Local(c, "getItem", TRUE), <<>>)

\* the localStorage branch of getVideoSessions
GetVideoSessionsLocal(c, userId) ==
    LET item == c.ls[VideoSessionsKey(userId)]
    IN  IF item = NullItem THEN Return(Local(c, "getItem", TRUE), <<>>)
        ELSE IF JSONparses(item) THEN Return(Local(c, "getItem", TRUE), JSONparse(item))
        ELSE Raise(Local(c, "getItem", FALSE))

\* a store step that writes the list back as it was read
StoreVideoSessionsUnchanged(c, sessions, session, writeOk) ==
    Return([Local(c, "setItem", writeOk) EXCEPT !.ls[VideoSessionsKey(session.user_id)] =
                                                    JSONstringify(sessions)], <<>>)

\* the localStorage branch of saveVideoSession once it holds the list:
\* findIndex, replace or unshift, slice, setItem
StoreVideoSessions(c, sessions, session, writeOk) ==
    LET SameVideo(s) == "video_id" \in DOMAIN s /\ s.video_id = session.video_id
        \* sessions.findIndex(s => s.video_id === session.video_id), 1-based
        existingIndex == FirstTrue([i \in 1..Len(sessions) |-> SameVideo(sessions[i])])
        changed == IF existingIndex > 0
                   THEN [sessions EXCEPT ![existingIndex] = session]
                   ELSE <<session>> \o sessions
        limitedSessions == Slice(changed, KeepLimit)
        c1 == Local(c, "setItem", writeOk)
    IN  IF writeOk
        THEN Return([c1 EXCEPT !.ls[VideoSessionsKey(session.user_id)] =
                                    JSONstringify(limitedSessions)], <<>>)
        ELSE Raise(c1)

\* the localStorage branch of getPauseInsights
GetPauseInsightsLocal(c, sessionId) ==
    LET item == c.ls[PauseInsightsKey(sessionId)]
    IN  IF item = NullItem THEN Return(Local(c, "getItem", TRUE), <<>>)
        ELSE IF JSONparses(item) THEN Return(Local(c, "getItem", TRUE), JSONparse(item))
        ELSE Raise(Local(c, "getItem", FALSE))

\* the localStorage branch of savePauseInsight once it holds the list,
\* lines 170-171: the insight goes to the end of the list, the list is written
StorePauseInsights(c, got, insight, writeOk) ==
    LET insights == Append(got, insight)
        c1 == Local(c, "setItem", writeOk)
    IN  IF writeOk
        THEN Return([c1 EXCEPT !.ls[PauseInsightsKey(insight.session_id)] =
                                    JSONstringify(insights)], <<>>)
        ELSE Raise(c1)

\* an accessor that always reports the backend reachable
IsDatabaseAvailableOptimistic(c) == TRUE

IsDatabaseAvailable(c) == c.avail

-----------------------------------------------------------------------------
(* A call of a facade method, from one await to the next *)

NewFacade == [avail |-> TRUE, db |-> EmptyDb, ls |-> [k \in Keys |-> NullItem]]
CtxOf(f, o) == Ctx(f.avail, f.db, f.ls, o)
FacadeOf(c) == [avail |-> c.avail, db |-> c.db, ls |-> c.ls]

\* no call made yet.  pc: where the call stands; entry: this.dbAvailable when
\* the call was made; probes: the answers of its probes; paths: what it did
\* after each probe; existing, sessions: what its lookup and its nested list
\* call returned; trace: its requests and localStorage accesses; sent, writes:
\* how many requests it sent and how often it called setItem; wrote: its place
\* among the localStorage writes of the calls
NoCall == [op |-> "none", arg |-> <<>>, pc |-> "done", entry |-> TRUE,
           probes |-> <<>>, paths |-> <<>>, existing |-> <<>>, sessions |-> <<>>,
           ret |-> <<>>, raised |-> FALSE, trace |-> <<>>,
           wrote |-> 0, sent |-> 0, writes |-> 0]

SessionOps == {"getVideoSessions", "saveVideoSession"}
InsightOps == {"getPauseInsights", "savePauseInsight"}

\* the method is entered and runs to its first await, the probe request
Entered(op, arg, avail) ==
    [NoCall EXCEPT !.op = op, !.arg = arg, !.entry = avail, !.sent = 1,
                   !.pc = IF op = "checkDatabaseAvailability" THEN "probeCall" ELSE "probe"]

\* what a step leaves: the facade after it, and the call with the step's accesses
Step(c, call) == [f |-> FacadeOf(c), call |-> [call EXCEPT !.trace = @ \o c.trace]]

\* the probe request is answered: checkDatabaseAvailability sets the flag and returns
ProbeAnswered(f, call, ok) ==
    Step(CheckDatabaseAvailability(CtxOf(f, <<ok>>)),
         [call EXCEPT !.pc = IF @ = "probe" THEN "probed" ELSE "nestedProbed",
                      !.probes = Append(@, ok)])

\* the probe request of a checkDatabaseAvailability called by itself is answered
ProbeCallAnswered(f, call, answer) ==
    LET r == CheckDatabaseAvailabilityCall(CtxOf(f, <<answer = "ok">>), answer)
    IN  Step(r.c, [call EXCEPT !.pc = "done", !.arg = answer, !.ret = r.ret,
                               !.probes = Append(@, answer = "ok")])

\* isDatabaseAvailable, which awaits nothing
IsDatabaseAvailableCall(f) ==
    [NoCall EXCEPT !.op = "isDatabaseAvailable", !.entry = f.avail,
                   !.ret = <<IsDatabaseAvailable(CtxOf(f, <<>>))>>]

UserOf(call) == IF call.op = "getVideoSessions" THEN call.arg ELSE call.arg.user_id

\* getVideoSessions returns (or throws) `got`: to its caller, or to the
\* saveVideoSession awaiting it at line 108, which a throw ends too
GetVideoSessionsReturns(call, got) ==
    IF call.op = "getVideoSessions"
    THEN [call EXCEPT !.pc = "done", !.ret = got.ret, !.raised = got.raised]
    ELSE IF got.raised
    THEN [call EXCEPT !.pc = "done", !.raised = TRUE]
    ELSE [call EXCEPT !.pc = "got", !.sessions = got.ret]

\* getVideoSessions goes on after its probe: if (this.dbAvailable) it sends the
\* list request, else it reads localStorage and returns
ResumeGetVideoSessions(f, call) ==
    IF f.avail
    THEN [f |-> f,
          call |-> [call EXCEPT !.pc = IF @ = "probed" THEN "list" ELSE "nestedList",
                                !.paths = Append(@, "remote"),
                                !.sent = @ + 1]]
    ELSE LET got == GetVideoSessionsLocal(CtxOf(f, <<>>), UserOf(call))
         IN  Step(got.c, GetVideoSessionsReturns([call EXCEPT !.paths = Append(@, "local")], got))

\* the list request of getVideoSessions is answered: the rows are returned, or
\* the catch clears the flag and the call reads localStorage
ListAnswered(f, call, ok) ==
    LET c == Request(CtxOf(f, <<ok>>), "videoSessions.list")
    IN  IF ok
        THEN Step(c, GetVideoSessionsReturns(call,
                         Return(c, ListSessionRows(f.db.videoSessions, UserOf(call)))))
        ELSE LET got == GetVideoSessionsLocal(CatchRemote(c), UserOf(call))
             IN  Step(got.c, GetVideoSessionsReturns(call, got))

\* saveVideoSession goes on after its probe: if (this.dbAvailable) it sends the
\* lookup, else it calls getVideoSessions, which sends its probe
ResumeSaveVideoSession(f, call) ==
    [f |-> f,
     call |-> [call EXCEPT !.pc = IF f.avail THEN "lookup" ELSE "nestedProbe",
                           !.paths = Append(@, IF f.avail THEN "remote" ELSE "local"),
                           !.sent = @ + 1]]

\* the lookup is answered: the update or create is sent, or the catch clears
\* the flag and the call goes to getVideoSessions
LookupAnswered(f, call, ok) ==
    LET c == Request(CtxOf(f, <<ok>>), "videoSessions.list")
    IN  IF ok
        THEN Step(c, [call EXCEPT !.pc = "write",
                                  !.existing = FindSessionRows(f.db.videoSessions,
                                                   call.arg.video_id, call.arg.user_id),
                                  !.sent = @ + 1])
        ELSE Step(CatchRemote(c), [call EXCEPT !.pc = "nestedProbe", !.sent = @ + 1])

\* the request saveVideoSession sends after its lookup
WriteRequest(call) ==
    IF Len(call.existing) > 0 THEN "videoSessions.update" ELSE "videoSessions.create"

\* a saveVideoSession that sends a rejected update or create once more
WriteAnsweredRetry(f, call, ok) ==
    LET c == Request(CtxOf(f, <<ok>>), WriteRequest(call))
    IN  IF ok
        THEN Step([c EXCEPT !.db.videoSessions =
                       IF Len(call.existing) > 0
                       THEN UpdateSessionRow(@, call.existing[1].id, call.arg)
                       ELSE Append(@, SessionRow(call.arg))],
                  [call EXCEPT !.pc = "done"])
        ELSE IF call.sent = 3
        THEN Step(c, [call EXCEPT !.sent = @ + 1])
        ELSE Step(CatchRemote(c), [call EXCEPT !.pc = "nestedProbe", !.sent = @ + 1])

\* the update or create is answered: the call returns, or the catch clears the
\* flag and the call goes to getVideoSessions
WriteAnswered(f, call, ok) ==
    LET c == Request(CtxOf(f, <<ok>>), WriteRequest(call))
    IN  IF ok
        THEN Step([c EXCEPT !.db.videoSessions =
                       IF Len(call.existing) > 0
                       THEN UpdateSessionRow(@, call.existing[1].id, call.arg)
                       ELSE Append(@, SessionRow(call.arg))],
                  [call EXCEPT !.pc = "done"])
        ELSE Step(CatchRemote(c), [call EXCEPT !.pc = "nestedProbe", !.sent = @ + 1])

\* saveVideoSession goes on with the list getVideoSessions returned and stores
\* it; `place` is the place of this write among the writes of the calls
StoreAnswered(f, call, writeOk, place) ==
    LET r == StoreVideoSessions(CtxOf(f, <<>>), call.sessions, call.arg, writeOk)
    IN  Step(r.c, [call EXCEPT !.pc = "done", !.raised = r.raised,
                               !.wrote = IF writeOk THEN place ELSE @,
                               !.writes = @ + 1])

SessionOf(call) == IF call.op = "getPauseInsights" THEN call.arg ELSE call.arg.session_id

\* getPauseInsights returns (or throws) `got`: to its caller, or to the
\* savePauseInsight awaiting it at line 169, which a throw ends too
GetPauseInsightsReturns(call, got) ==
    IF call.op = "getPauseInsights"
    THEN [call EXCEPT !.pc = "done", !.ret = got.ret, !.raised = got.raised]
    ELSE IF got.raised
    THEN [call EXCEPT !.pc = "done", !.raised = TRUE]
    ELSE [call EXCEPT !.pc = "got", !.sessions = got.ret]

\* getPauseInsights goes on after its probe: if (this.dbAvailable) it sends the
\* list request, else it reads localStorage and returns
ResumeGetPauseInsights(f, call) ==
    IF f.avail
    THEN [f |-> f,
          call |-> [call EXCEPT !.pc = IF @ = "probed" THEN "list" ELSE "nestedList",
                                !.paths = Append(@, "remote"),
                                !.sent = @ + 1]]
    ELSE LET got == GetPauseInsightsLocal(CtxOf(f, <<>>), SessionOf(call))
         IN  Step(got.c, GetPauseInsightsReturns([call EXCEPT !.paths = Append(@, "local")], got))

\* the list request of getPauseInsights is answered: the rows are returned, or
\* the catch clears the flag and the call reads localStorage
InsightListAnswered(f, call, ok) ==
    LET c == Request(CtxOf(f, <<ok>>), "pauseInsights.list")
    IN  IF ok
        THEN Step(c, GetPauseInsightsReturns(call,
                         Return(c, ListInsightRows(f.db.pauseInsights, SessionOf(call)))))
        ELSE LET got == GetPauseInsightsLocal(CatchRemote(c), SessionOf(call))
             IN  Step(got.c, GetPauseInsightsReturns(call, got))

\* savePauseInsight goes on after its probe: if (this.dbAvailable) it sends the
\* create, else it calls getPauseInsights, which sends its probe
ResumeSavePauseInsight(f, call) ==
    [f |-> f,
     call |-> [call EXCEPT !.pc = IF f.avail THEN "write" ELSE "nestedProbe",
                           !.paths = Append(@, IF f.avail THEN "remote" ELSE "local"),
                           !.sent = @ + 1]]

\* a create that also keeps a local copy of what it created
CreateAnsweredWriteThrough(f, call, ok) ==
    LET c == Request(CtxOf(f, <<ok>>), "pauseInsights.create")
    IN  IF ok
        THEN Step([c EXCEPT !.db.pauseInsights = Append(@, InsightRow(call.arg)),
                            !.ls[PauseInsightsKey(call.arg.session_id)] =
                                JSONstringify(<<call.arg>>)],
                  [call EXCEPT !.pc = "done"])
        ELSE Step(CatchRemote(c), [call EXCEPT !.pc = "nestedProbe", !.sent = @ + 1])

\* the create is answered: the call returns, or the catch clears the flag and
\* the call goes to getPauseInsights
CreateAnswered(f, call, ok) ==
    LET c == Request(CtxOf(f, <<ok>>), "pauseInsights.create")
    IN  IF ok
        THEN Step([c EXCEPT !.db.pauseInsights = Append(@, InsightRow(call.arg))],
                  [call EXCEPT !.pc = "done"])
        ELSE Step(CatchRemote(c), [call EXCEPT !.pc = "nestedProbe", !.sent = @ + 1])

\* savePauseInsight goes on with the list getPauseInsights returned and stores it
InsightStoreAnswered(f, call, writeOk, place) ==
    LET r == StorePauseInsights(CtxOf(f, <<>>), call.sessions, call.arg, writeOk)
    IN  Step(r.c, [call EXCEPT !.pc = "done", !.raised = r.raised,
                               !.wrote = IF writeOk THEN place ELSE @,
                               !.writes = @ + 1])

\* the call awaits the answer of a request it sent
Awaiting(call) ==
    /\ call.op \in SessionOps \cup InsightOps
    /\ call.pc \in {"probe", "nestedProbe", "list", "nestedList", "lookup", "write"}

\* the request the call awaits is answered
Answered(f, call, ok) ==
    IF call.pc \in {"probe", "nestedProbe"} THEN ProbeAnswered(f, call, ok)
    ELSE IF call.op \in SessionOps
    THEN IF call.pc \in {"list", "nestedList"} THEN ListAnswered(f, call, ok)
         ELSE IF call.pc = "lookup" THEN LookupAnswered(f, call, ok)
         ELSE WriteAnswered(f, call, ok)
    ELSE IF call.pc \in {"list", "nestedList"} THEN InsightListAnswered(f, call, ok)
         ELSE CreateAnswered(f, call, ok)

\* the await of the call was settled and the call has not gone on yet
Settled(call) ==
    /\ call.op \in SessionOps \cup InsightOps
    /\ call.pc \in {"probed", "nestedProbed", "got"}

\* the call goes on after the await
Resumed(f, call, writeOk, place) ==
    IF call.pc = "got"
    THEN IF call.op = "saveVideoSession" THEN StoreAnswered(f, call, writeOk, place)
         ELSE InsightStoreAnswered(f, call, writeOk, place)
    ELSE IF call.pc = "probed" /\ call.op = "saveVideoSession" THEN ResumeSaveVideoSession(f, call)
    ELSE IF call.pc = "probed" /\ call.op = "savePauseInsight" THEN ResumeSavePauseInsight(f, call)
    ELSE IF call.op \in SessionOps THEN ResumeGetVideoSessions(f, call)
    ELSE ResumeGetPauseInsights(f, call)

-----------------------------------------------------------------------------
(* The state machine: the facade `storage` and the calls made on it *)

Callers == {1, 2}

\* the components before anything was mounted or clicked
\* no handler: the caller runs none
NoHandler == [name |-> "none", pc |-> "done", arg |-> <<>>, live |-> FALSE]

\* App, Dashboard and VideoPlayer as their useState calls leave them
\* (authLoading is App's loading, selected its currentVideoId), whether the
\* Dashboard has yet to run its effect (mounting), the number of auth state
\* changes so far (auths) and the histories of the last start and the last pause
NoApp == [ user |-> <<>>,
           authLoading |-> TRUE,
           auths |-> 0,
           currentView |-> "landing",
           selected |-> <<>>,
           mounting |-> "no",
           recentSessions |-> <<>>,
           loading |-> FALSE,
           dbStatus |-> "checking",
           insights |-> <<>>,
           handlers |-> [p \in Callers |-> NoHandler],
           started |-> [user |-> <<>>, video |-> <<>>, before |-> <<>>, saved |-> <<>>,
                        done |-> TRUE],
           paused |-> [user |-> <<>>, time |-> <<>>, video |-> <<>>, ai |-> <<>>,
                       session |-> <<>>,
                       insightsBefore |-> 0, savePauseInsight |-> <<>>,
                       saveVideoSession |-> <<>>, caller |-> 0, done |-> TRUE] ]

\* the two facades run side by side, each with the call made on it
NoTwin == [up |-> [f |-> NewFacade, call |-> NoCall],
           down |-> [f |-> NewFacade, call |-> NoCall]]

\* the module's `new StorageManager()`, empty stores
InitFacade ==
    /\ dbAvailable = TRUE
    /\ db = EmptyDb
    /\ localStorage = [k \in Keys |-> NullItem]
    /\ clock = 1
    /\ lastOp = NoCall
    /\ lastSaved = [u \in Users |-> [v \in Videos |-> <<>>]]
    /\ nSaved = [u \in Users |-> [v \in Videos |-> 0]]
    /\ insightLog = [s \in InsightSessions |-> <<>>]
    /\ flips = 0
    /\ twin = NoTwin
    /\ twinOut = [listed |-> FALSE, user |-> "", up |-> <<>>, down |-> <<>>]
    /\ calls = [p \in Callers |-> NoCall]
    /\ app = NoApp
    /\ overlapped = FALSE

Init == InitFacade /\ backendUp = TRUE

Facade == [avail |-> dbAvailable, db |-> db, ls |-> localStorage]

\* the facade's own state and the two media after a step
Commit(f) ==
    /\ dbAvailable' = f.avail
    /\ db' = f.db
    /\ localStorage' = f.ls

\* a saveVideoSession (savePauseInsight) that returned
SavedSession(call) ==
    call.pc = "done" /\ call.op = "saveVideoSession" /\ ~call.raised
SavedInsight(call) ==
    /\ call.pc = "done" /\ call.op = "savePauseInsight" /\ ~call.raised
    /\ call.arg.session_id \in InsightSessions

\* the histories after a step that left the call as `call`
Record(call) ==
    /\ lastSaved' = IF SavedSession(call)
                    THEN [lastSaved EXCEPT ![call.arg.user_id][call.arg.video_id] = <<call.arg>>]
                    ELSE lastSaved
    /\ nSaved' = IF SavedSession(call)
                 THEN [nSaved EXCEPT ![call.arg.user_id][call.arg.video_id] = @ + 1]
                 ELSE nSaved
    /\ insightLog' = IF SavedInsight(call)
                     THEN [insightLog EXCEPT ![call.arg.session_id] = Append(@, call.arg)]
                     ELSE insightLog

\* the place the next localStorage write of a call gets
NextWrite ==
    1 + CHOOSE n \in {calls[p].wrote : p \in Callers} : \A p \in Callers : calls[p].wrote <= n

\* a step of the call of caller p that leaves r
Advance(p, r) ==
    /\ calls' = [calls EXCEPT ![p] = r.call]
    /\ Commit(r.f)
    /\ UNCHANGED <<clock, twin, twinOut, app, overlapped>>

\* no call is in flight
Idle == \A p \in Callers : calls[p].pc = "done"

\* caller p enters a method; the clock advances by `ticks`
Enter(p, op, arg, ticks) ==
    /\ calls[p].pc = "done"
    /\ calls' = [calls EXCEPT ![p] = Entered(op, arg, dbAvailable)]
    /\ clock' = clock + ticks
    /\ overlapped' = (overlapped \/ ~Idle)
    /\ UNCHANGED <<dbAvailable, db, localStorage, lastOp, lastSaved, nSaved, insightLog,
                   backendUp, flips, twin, twinOut>>

\* the request the call of caller p awaits is answered
Answers(p, ok) ==
    /\ Awaiting(calls[p])
    /\ Advance(p, Answered(Facade, calls[p], ok))

\* the call of caller p goes on after an await that was settled
Resumes(p, writeOk) ==
    /\ Settled(calls[p])
    /\ Advance(p, Resumed(Facade, calls[p], writeOk, NextWrite))

\* the probe of a checkDatabaseAvailability called by itself is answered
ProbeCallAnswers(p, answer) ==
    /\ calls[p].pc = "probeCall"
    /\ Advance(p, ProbeCallAnswered(Facade, calls[p], answer))

\* a call that ended is the call that returned last
Returned(call) == lastOp' = IF call.pc = "done" THEN call ELSE lastOp

\* the steps of a call, nothing kept of the calls that returned
StepAnswered(p, ok) ==
    /\ Answers(p, ok)
    /\ UNCHANGED <<lastOp, lastSaved, nSaved, insightLog, backendUp, flips>>

StepResumed(p, writeOk) ==
    /\ Resumes(p, writeOk)
    /\ UNCHANGED <<lastOp, lastSaved, nSaved, insightLog, backendUp, flips>>

StepProbeAnswered(p, answer) ==
    /\ ProbeCallAnswers(p, answer)
    /\ UNCHANGED <<lastOp, lastSaved, nSaved, insightLog, backendUp, flips>>

\* a caller other than a component calls a method
CallBegins(p, op, arg, ticks) == Enter(p, op, arg, ticks) /\ UNCHANGED app

\* the steps of its call, with the call that returned last and the histories kept
CallAnswered(p, ok) ==
    /\ Answers(p, ok)
    /\ Returned(calls'[p])
    /\ Record(calls'[p])
    /\ UNCHANGED <<backendUp, flips>>

CallResumed(p, writeOk) ==
    /\ Resumes(p, writeOk)
    /\ Returned(calls'[p])
    /\ Record(calls'[p])
    /\ UNCHANGED <<backendUp, flips>>

CallProbeAnswered(p, answer) ==
    /\ ProbeCallAnswers(p, answer)
    /\ Returned(calls'[p])
    /\ UNCHANGED <<lastSaved, nSaved, insightLog, backendUp, flips>>

\* caller p calls isDatabaseAvailable, which returns at once
CallIsDatabaseAvailable(p) ==
    /\ calls[p].pc = "done"
    /\ Advance(p, [f |-> Facade, call |-> IsDatabaseAvailableCall(Facade)])
    /\ Returned(calls'[p])
    /\ UNCHANGED <<lastSaved, nSaved, insightLog, backendUp, flips>>

\* the first user saves any session; the second user only starts the first video
SessionInputs(now) ==
    {VideoSession("u1", v, kind, now) : v \in Videos, kind \in SessionKinds}
        \cup {VideoSession("u2", "v1", "fresh", now)}

\* one user starting videos
FlagSessionInputs(now) == {VideoSession("u1", v, "fresh", now) : v \in Videos}

InsightInputs(now) ==
    {PauseInsight(s, t, now) : s \in InsightSessions, t \in PauseTimes}

(* Spec: calls made one after the other, each made when the one before has *)
(* returned; the backend answers or rejects each request as it likes, and  *)
(* localStorage takes or refuses each write                                *)

Next ==
    \/ \E u \in Users : CallBegins(1, "getVideoSessions", u, 0)
    \/ \E session \in SessionInputs(clock) :
           clock <= MaxClock /\ CallBegins(1, "saveVideoSession", session, 1)
    \/ \E s \in InsightSessions : CallBegins(1, "getPauseInsights", s, 0)
    \/ \E insight \in InsightInputs(clock) :
           clock <= MaxClock /\ CallBegins(1, "savePauseInsight", insight, 1)
    \/ \E ok \in BOOLEAN : CallAnswered(1, ok)
    \/ \E writeOk \in BOOLEAN : CallResumed(1, writeOk)

Spec == Init /\ [][Next]_vars

(* SpecEnv: as Spec, and something else in the page overwrites a localStorage *)
(* item with a string that is not JSON                                        *)

EnvCorrupt(k) ==
    /\ Idle
    /\ \A other \in Keys : localStorage[other] # GarbageItem
    /\ localStorage' = [localStorage EXCEPT ![k] = GarbageItem]
    /\ lastOp' = [NoCall EXCEPT !.op = "env", !.arg = k]
    /\ UNCHANGED <<dbAvailable, db, clock, lastSaved, nSaved, insightLog,
                   backendUp, flips, twin, twinOut, calls, app, overlapped>>

NextEnv ==
    \/ Next
    \/ \E k \in Keys : EnvCorrupt(k)

SpecEnv == Init /\ [][NextEnv]_vars

(* SpecOffline: calls of two callers, in flight together or one after the  *)
(* other; every remote request of every call is rejected; localStorage     *)
(* works                                                                   *)

NextOffline ==
    \/ \E p \in Callers : CallBegins(p, "getVideoSessions", "u1", 0)
    \/ \E p \in Callers, session \in FlagSessionInputs(clock) :
           clock <= MaxOfflineClock /\ CallBegins(p, "saveVideoSession", session, 1)
    \/ \E p \in Callers, s \in InsightSessions : CallBegins(p, "getPauseInsights", s, 0)
    \/ \E p \in Callers, insight \in InsightInputs(clock) :
           clock <= MaxOfflineClock /\ CallBegins(p, "savePauseInsight", insight, 1)
    \/ \E p \in Callers : CallAnswered(p, FALSE)
    \/ \E p \in Callers : CallResumed(p, TRUE)

SpecOffline == Init /\ [][NextOffline]_vars

(* SpecCap: one user keeps starting new videos, one call after the other;  *)
(* the backend is up or down and changes between two requests at most      *)
(* MaxFlips times                                                          *)

\* the backend answers the request as it stands, or changes first
Backend(ok) ==
    /\ ok # backendUp => flips < MaxFlips
    /\ backendUp' = ok
    /\ flips' = IF ok # backendUp THEN flips + 1 ELSE flips

CapGetVideoSessions == CallBegins(1, "getVideoSessions", "u1", 0)

\* the video started at time `clock` is video number `clock`
CapSaveVideoSession ==
    /\ clock <= MaxCapClock
    /\ CallBegins(1, "saveVideoSession", VideoSession("u1", clock, "fresh", clock), 1)

CapAnswered(ok) ==
    /\ Answers(1, ok)
    /\ Returned(calls'[1])
    /\ Backend(ok)
    /\ UNCHANGED <<lastSaved, nSaved, insightLog>>

CapResumed ==
    /\ Resumes(1, TRUE)
    /\ Returned(calls'[1])
    /\ UNCHANGED <<lastSaved, nSaved, insightLog, backendUp, flips>>

NextCap ==
    \/ CapGetVideoSessions
    \/ CapSaveVideoSession
    \/ \E ok \in BOOLEAN : CapAnswered(ok)
    \/ CapResumed

InitCap == InitFacade /\ backendUp \in BOOLEAN

SpecCap == InitCap /\ [][NextCap]_vars

(* SpecTwin: the same calls, one after the other, given to a facade whose   *)
(* backend answers every request and to a facade whose backend is absent    *)
(* from the start                                                           *)

\* both facades have returned from the call given to them
TwinIdle(t) == t.up.call.pc = "done" /\ t.down.call.pc = "done"

\* a step in one of the two; what the two returned is kept when both have
\* returned from a getVideoSessions
TwinStep(t) ==
    /\ twin' = t
    /\ twinOut' = IF TwinIdle(t) /\ t.up.call.op = "getVideoSessions"
                  THEN [listed |-> TRUE, user |-> t.up.call.arg,
                        up |-> t.up.call.ret, down |-> t.down.call.ret]
                  ELSE twinOut
    /\ UNCHANGED <<dbAvailable, db, localStorage, clock, lastOp, lastSaved, nSaved,
                   insightLog, backendUp, flips, calls, app, overlapped>>

TwinBegins(op, arg, ticks) ==
    /\ TwinIdle(twin)
    /\ twin' = [up |-> [twin.up EXCEPT !.call = Entered(op, arg, twin.up.f.avail)],
                down |-> [twin.down EXCEPT !.call = Entered(op, arg, twin.down.f.avail)]]
    /\ twinOut' = [twinOut EXCEPT !.listed = FALSE]
    /\ clock' = clock + ticks
    /\ UNCHANGED <<dbAvailable, db, localStorage, lastOp, lastSaved, nSaved, insightLog,
                   backendUp, flips, calls, app, overlapped>>

TwinSaveVideoSession(session) ==
    clock <= MaxTwinClock /\ TwinBegins("saveVideoSession", session, 1)

TwinGetVideoSessions(userId) == TwinBegins("getVideoSessions", userId, 0)

TwinUpAnswered ==
    /\ Awaiting(twin.up.call)
    /\ TwinStep([twin EXCEPT !.up = Answered(twin.up.f, twin.up.call, TRUE)])

TwinUpResumed ==
    /\ Settled(twin.up.call)
    /\ TwinStep([twin EXCEPT !.up = Resumed(twin.up.f, twin.up.call, TRUE, 1)])

TwinDownAnswered ==
    /\ Awaiting(twin.down.call)
    /\ TwinStep([twin EXCEPT !.down = Answered(twin.down.f, twin.down.call, FALSE)])

TwinDownResumed ==
    /\ Settled(twin.down.call)
    /\ TwinStep([twin EXCEPT !.down = Resumed(twin.down.f, twin.down.call, TRUE, 1)])

NextTwin ==
    \/ \E session \in SessionInputs(clock) : TwinSaveVideoSession(session)
    \/ \E u \in Users : TwinGetVideoSessions(u)
    \/ TwinUpAnswered
    \/ TwinUpResumed
    \/ TwinDownAnswered
    \/ TwinDownResumed

SpecTwin == Init /\ [][NextTwin]_vars

-----------------------------------------------------------------------------
(* Reading the stores and the returned records *)

\* a returned session read under either naming, the in-memory one or the wire's
AsSession(r) ==
    IF "video_id" \in DOMAIN r THEN r
    ELSE [ id |-> r.id, video_id |-> r.videoId, title |-> r.title, thumbnail |-> r.thumbnail,
           progress |-> r.progress, duration |-> r.duration, last_watched |-> r.lastWatched,
           user_id |-> r.userId ]

AsSessions(list) == [i \in 1..Len(list) |-> AsSession(list[i])]

\* a returned insight's pause timestamp (the same name in both namings)
PauseOf(r) == r.timestamp

StoredList(k) == IF JSONparses(localStorage[k]) THEN JSONparse(localStorage[k]) ELSE <<>>
LocalSessions(u) == StoredList(VideoSessionsKey(u))
LocalInsights(s) == StoredList(PauseInsightsKey(s))
RemoteInsights(s) ==
    LET Mine(r) == r.sessionId = s
    IN  SelectSeq(db.pauseInsights, Mine)

ForVideo(list, u, v) ==
    LET Hit(r) == AsSession(r).video_id = v /\ AsSession(r).user_id = u
    IN  SelectSeq(list, Hit)

IsPrefix(a, b) == Len(a) <= Len(b) /\ SubSeq(b, 1, Len(a)) = a

\* the call that returned last, no call having been made since
Listed(u) == Idle /\ lastOp.op = "getVideoSessions" /\ lastOp.arg = u /\ ~lastOp.raised

Did(call, acc, ok) == \E i \in 1..Len(call.trace) : call.trace[i] = [acc |-> acc, ok |-> ok]
Failed(acc) == Did(lastOp, acc, FALSE)
Succeeded(acc) == Did(lastOp, acc, TRUE)

\* this step is one of the call of caller p, and the call returns with it
Returns(p) == calls[p].pc # "done" /\ calls'[p].pc = "done"

-----------------------------------------------------------------------------
(* SpecFlag: the whole facade as the dashboard and the player use it, for  *)
(* one user: the four list and save methods, the probe called by itself    *)
(* and the flag's accessor, called by two callers whose calls may be in    *)
(* flight together                                                         *)

\* the steps of a call, the call that returned last kept
FlagAnswered(p, ok) ==
    /\ Answers(p, ok)
    /\ Returned(calls'[p])
    /\ UNCHANGED <<lastSaved, nSaved, insightLog, backendUp, flips>>

FlagResumed(p, writeOk) ==
    /\ Resumes(p, writeOk)
    /\ Returned(calls'[p])
    /\ UNCHANGED <<lastSaved, nSaved, insightLog, backendUp, flips>>

NextFlag ==
    \/ clock <= MaxFlagClock /\ CallBegins(1, "getVideoSessions", "u1", 0)
    \/ /\ clock <= MaxFlagClock
       /\ CallBegins(1, "saveVideoSession", VideoSession("u1", "v1", "fresh", clock), 1)
    \/ \E s \in InsightSessions :
           clock <= MaxFlagClock /\ CallBegins(2, "getPauseInsights", s, 0)
    \/ \E s \in InsightSessions :
           /\ clock <= MaxFlagClock
           /\ CallBegins(2, "savePauseInsight", PauseInsight(s, 30, clock), 1)
    \/ clock <= MaxFlagClock /\ CallBegins(1, "checkDatabaseAvailability", <<>>, 0)
    \/ CallIsDatabaseAvailable(1)
    \/ \E p \in Callers, ok \in BOOLEAN : FlagAnswered(p, ok)
    \/ \E p \in Callers : FlagResumed(p, TRUE)
    \/ \E answer \in ProbeAnswers : CallProbeAnswered(1, answer)

SpecFlag == Init /\ [][NextFlag]_vars

(* SpecInFlight: session calls of one user in flight together; localStorage *)
(* takes every write                                                        *)

NextInFlight ==
    \/ \E p \in Callers, session \in FlagSessionInputs(clock) :
           clock <= MaxInFlightClock /\ CallBegins(p, "saveVideoSession", session, 1)
    \/ \E p \in Callers : clock <= MaxInFlightClock /\ CallBegins(p, "getVideoSessions", "u1", 0)
    \/ \E p \in Callers, ok \in BOOLEAN : StepAnswered(p, ok)
    \/ \E p \in Callers : StepResumed(p, TRUE)

SpecInFlight == Init /\ [][NextInFlight]_vars

(* SpecSteps: calls of the four list and save methods, request by request. *)
(* A request that was sent is answered in the end, with success or with   *)
(* failure, and a call that can go on does go on                          *)

StepBegin(p) ==
    /\ clock <= MaxStepsClock
    /\ \/ CallBegins(p, "getVideoSessions", "u1", 1)
       \/ CallBegins(p, "saveVideoSession", VideoSession("u1", "v1", "fresh", clock), 1)
       \/ \E s \in InsightSessions : CallBegins(p, "getPauseInsights", s, 1)
       \/ \E s \in InsightSessions : CallBegins(p, "savePauseInsight", PauseInsight(s, 30, clock), 1)

\* the request the call awaits is answered, with success or with failure
RequestAnswered(p) == \E ok \in BOOLEAN : StepAnswered(p, ok)

\* the call goes on; localStorage takes or refuses its write
CallGoesOn(p) == \E writeOk \in BOOLEAN : StepResumed(p, writeOk)

NextSteps ==
    \/ \E p \in Callers : StepBegin(p)
    \/ \E p \in Callers : RequestAnswered(p)
    \/ \E p \in Callers : CallGoesOn(p)

SpecSteps ==
    /\ Init
    /\ [][NextSteps]_vars
    /\ \A p \in Callers : WF_vars(RequestAnswered(p)) /\ WF_vars(CallGoesOn(p))


(* SpecRecent: with the backend away, a caller keeps saving the session  *)
(* of a new video of one user and, at most MaxRewatches times, saves     *)
(* again the session of the video at the end of the stored list; each    *)
(* call is made when the one before has returned                          *)

\* videos are numbered in the order they are first saved
NewestVideo ==
    LET list == LocalSessions("u1")
    IN  IF list = <<>> THEN 0
        ELSE CHOOSE v \in {list[i].video_id : i \in 1..Len(list)} :
                 \A i \in 1..Len(list) : list[i].video_id <= v

\* the saves so far that were not the first of their video
Rewatches == (clock - 1) - NewestVideo

RecentSaveVideoSession(v) ==
    /\ clock <= MaxCapClock
    /\ CallBegins(1, "saveVideoSession", VideoSession("u1", v, "fresh", clock), 1)

RecentSaveAgain ==
    /\ LocalSessions("u1") # <<>>
    /\ Rewatches < MaxRewatches
    /\ RecentSaveVideoSession(LocalSessions("u1")[Len(LocalSessions("u1"))].video_id)

NextRecent ==
    \/ CallBegins(1, "getVideoSessions", "u1", 0)
    \/ RecentSaveVideoSession(NewestVideo + 1)
    \/ RecentSaveAgain
    \/ StepAnswered(1, FALSE)
    \/ StepResumed(1, TRUE)

InitRecent == InitFacade /\ backendUp = FALSE

SpecRecent == InitRecent /\ [][NextRecent]_vars

(* The components.  App renders the spinner, the LandingPage, the          *)
(* VideoPlayer or the Dashboard; a component that is rendered anew has its *)
(* initial state.  A handler is an async function of a component: it runs  *)
(* to its first await and goes on when what it awaits has returned.        *)
(* Nothing keeps a handler from being called while another one is          *)
(* suspended, so handlers are in flight together, each with the storage    *)
(* call it awaits; a handler whose component was unmounted goes on, its    *)
(* setState calls changing nothing.  The handlers in flight together are   *)
(* as many as there are callers.                                           *)

\* what a step of a component leaves alone
ComponentStep ==
    UNCHANGED <<dbAvailable, db, localStorage, clock, lastOp, lastSaved, nSaved, insightLog,
                backendUp, flips, twin, twinOut, calls, overlapped>>

\* a handler of caller p can be called: none of p is suspended
Free(p) == app.handlers[p].pc = "done" /\ calls[p].pc = "done"

\* the caller a handler called now runs as
FreeSlot(p) == Free(p) /\ \A q \in Callers : q < p => ~Free(q)

DashboardHandlers == {"loadRecentSessions", "handleStartLearning"}
PlayerHandlers == {"handlePause"}

\* the handlers of a component that is unmounted
Unmounted(handlers, names) ==
    [p \in Callers |-> IF handlers[p].name \in names
                       THEN [handlers[p] EXCEPT !.live = FALSE]
                       ELSE handlers[p]]

\* what App returns: the spinner, the LandingPage, the VideoPlayer, the Dashboard
Shown(a) ==
    IF a.authLoading THEN "loading"
    ELSE IF a.user = <<>> THEN "landing"
    ELSE IF a.currentView = "player" /\ a.selected # <<>> THEN "player"
    ELSE "dashboard"

\* App is rendered again after its state went from a to b: a component no
\* longer returned is unmounted, the VideoPlayer returned anew has no insights,
\* the Dashboard returned anew, or with another user, is to run its effect
Rendered(a, b) ==
    [b EXCEPT !.handlers =
                  Unmounted(Unmounted(@, IF Shown(a) = "dashboard" /\ Shown(b) # "dashboard"
                                         THEN DashboardHandlers ELSE {}),
                            IF Shown(a) = "player" /\ Shown(b) # "player"
                            THEN PlayerHandlers ELSE {}),
              !.insights = IF Shown(b) = "player" /\ Shown(a) # "player" THEN <<>> ELSE @,
              !.mounting = IF Shown(b) # "dashboard" THEN "no"
                           ELSE IF Shown(a) # "dashboard" THEN "mount"
                           ELSE IF a.user # b.user /\ @ = "no" THEN "effect"
                           ELSE @]

\* the Dashboard (the VideoPlayer) is there for the user's events
DashboardShown == Shown(app) = "dashboard" /\ app.mounting = "no"
PlayerShown == Shown(app) = "player"

\* App.handleVideoSelect; videoId is <<>> for undefined
HandleVideoSelect(a, videoId) ==
    Rendered(a, [a EXCEPT !.selected = videoId, !.currentView = "player"])

\* the callback App gives blink.auth.onAuthStateChanged, called with
\* state.user (<<>> for null) and state.isLoading
OnAuthStateChanged(user, isLoading) ==
    /\ app' = Rendered(app, [app EXCEPT !.user = user,
                                        !.authLoading = isLoading,
                                        !.auths = @ + 1,
                                        !.currentView = IF user # <<>> /\ @ = "landing"
                                                        THEN "dashboard" ELSE @])
    /\ ComponentStep

\* App.handleBackToDashboard, the player's Back button
HandleBackToDashboard ==
    /\ PlayerShown
    /\ app' = Rendered(app, [app EXCEPT !.currentView = "dashboard", !.selected = <<>>])
    /\ ComponentStep

\* newSession of handleStartLearning; the id is made of the time and a random suffix
NewSession(userId, videoId, now) ==
    [ id           |-> <<"session", now>>,
      video_id     |-> videoId,
      title        |-> "Loading...",
      thumbnail    |-> <<"thumbnail", videoId>>,
      progress     |-> 0,
      duration     |-> 0,
      last_watched |-> now,
      user_id      |-> userId ]

\* recentSessions.find(s => s.video_id === videoId) finds one
InRecentSessions(recentSessions, videoId) ==
    \E i \in 1..Len(recentSessions) :
        "video_id" \in DOMAIN recentSessions[i] /\ recentSessions[i].video_id = videoId

\* what the two media hold for the pair
StoredFor(userId, videoId) ==
    ForVideo(LocalSessions(userId), userId, videoId) \o ForVideo(db.videoSessions, userId, videoId)

\* the effect of the Dashboard runs: loadRecentSessions to its first await,
\* checkDatabaseAvailability; a Dashboard rendered anew is in its initial state
DashboardMount(userId) ==
    \E p \in Callers :
        /\ FreeSlot(p)
        /\ Shown(app) = "dashboard" /\ app.mounting # "no" /\ app.user = <<userId>>
        /\ Enter(p, "checkDatabaseAvailability", <<>>, 0)
        /\ app' = [app EXCEPT !.mounting = "no",
                              !.recentSessions = IF app.mounting = "mount" THEN <<>> ELSE @,
                              !.dbStatus = IF app.mounting = "mount" THEN "checking" ELSE @,
                              !.loading = IF app.mounting = "mount" THEN FALSE ELSE @,
                              !.handlers[p] = [name |-> "loadRecentSessions", pc |-> "check",
                                               arg |-> userId, live |-> TRUE]]

\* loadRecentSessions goes on with what the probe returned: setDbStatus, and
\* the call of getVideoSessions
LoadChecked(p) ==
    /\ app.handlers[p].name = "loadRecentSessions" /\ app.handlers[p].pc = "check"
    /\ calls[p].pc = "done"
    /\ Enter(p, "getVideoSessions", app.handlers[p].arg, 0)
    /\ app' = [app EXCEPT !.handlers[p].pc = "list",
                          !.dbStatus = IF ~app.handlers[p].live THEN @
                                       ELSE IF calls[p].ret[1] THEN "available"
                                       ELSE "unavailable"]

\* loadRecentSessions goes on with the list: the first six of it; the catch
\* sets the status and empties the list
LoadRecentSessions(p) ==
    /\ app.handlers[p].name = "loadRecentSessions" /\ app.handlers[p].pc = "list"
    /\ calls[p].pc = "done"
    /\ app' = IF ~app.handlers[p].live
              THEN [app EXCEPT !.handlers[p] = NoHandler]
              ELSE IF calls[p].raised
              THEN [app EXCEPT !.handlers[p] = NoHandler,
                               !.dbStatus = "unavailable",
                               !.recentSessions = <<>>]
              ELSE [app EXCEPT !.handlers[p] = NoHandler,
                               !.recentSessions = Slice(calls[p].ret, ShownLimit)]
    /\ ComponentStep

\* the Start Learning button can be clicked: the Dashboard is shown and no
\* handleStartLearning of it is under way
CanStart == DashboardShown /\ ~app.loading

\* handleStartLearning with a URL that holds no video id
StartNothing ==
    /\ CanStart
    /\ app' = [app EXCEPT !.started = [user |-> app.user, video |-> <<>>, before |-> <<>>,
                                       saved |-> <<>>, done |-> TRUE]]
    /\ ComponentStep

\* handleStartLearning with the URL of a video found in recentSessions: the
\* video is selected
StartSelects(userId, videoId) ==
    /\ CanStart
    /\ app.user = <<userId>>
    /\ InRecentSessions(app.recentSessions, videoId)
    /\ app' = [HandleVideoSelect(app, <<videoId>>) EXCEPT
                  !.started = [user |-> <<userId>>,
                               video |-> <<videoId>>,
                               before |-> StoredFor(userId, videoId),
                               saved |-> <<>>,
                               done |-> TRUE]]
    /\ ComponentStep

\* handleStartLearning with the URL of a video not found in recentSessions:
\* it runs to its await of saveVideoSession(newSession)
HandleStartLearning(userId, videoId) ==
    LET newSession == NewSession(userId, videoId, clock)
    IN  \E p \in Callers :
            /\ FreeSlot(p)
            /\ CanStart
            /\ app.user = <<userId>>
            /\ ~InRecentSessions(app.recentSessions, videoId)
            /\ Enter(p, "saveVideoSession", newSession, 1)
            /\ app' = [app EXCEPT !.loading = TRUE,
                                  !.handlers[p] = [name |-> "handleStartLearning",
                                                   pc |-> "save", arg |-> newSession,
                                                   live |-> TRUE],
                                  !.started = [user |-> <<userId>>,
                                               video |-> <<videoId>>,
                                               before |-> StoredFor(userId, videoId),
                                               saved |-> <<newSession>>,
                                               done |-> FALSE]]

\* what handleStartLearning leaves when it returns
StartReturned(a, p) ==
    [a EXCEPT !.loading = IF a.handlers[p].live THEN FALSE ELSE @,
              !.handlers[p] = NoHandler,
              !.started.done = TRUE]

\* handleStartLearning goes on when saveVideoSession has returned:
\* setRecentSessions and onVideoSelect, or the catch; then setLoading(false)
StartSaved(p) ==
    /\ app.handlers[p].name = "handleStartLearning" /\ app.handlers[p].pc = "save"
    /\ calls[p].pc = "done"
    /\ app' = IF calls[p].raised
              THEN StartReturned(app, p)
              ELSE StartReturned(
                       HandleVideoSelect(
                           [app EXCEPT !.recentSessions =
                                IF app.handlers[p].live
                                THEN <<app.handlers[p].arg>> \o Slice(@, ShownLimit - 1)
                                ELSE @],
                           <<app.handlers[p].arg.video_id>>),
                       p)
    /\ ComponentStep

\* the card of the i-th session shown is clicked:
\* onVideoSelect(session.video_id), undefined for a row that has no video_id
SessionCardClicked(i) ==
    /\ DashboardShown
    /\ i \in 1..Len(app.recentSessions)
    /\ app' = HandleVideoSelect(app, IF "video_id" \in DOMAIN app.recentSessions[i]
                                     THEN <<app.recentSessions[i].video_id>>
                                     ELSE <<>>)
    /\ ComponentStep

\* Start Learning clicked by the user with the URL of video v
DashboardStart(userId, v) ==
    \/ StartSelects(userId, v)
    \/ HandleStartLearning(userId, v)

\* the auth states the callback is called with: a user is signed in, none is
AuthStates ==
    {[user |-> <<u>>, isLoading |-> FALSE] : u \in Users} \cup {[user |-> <<>>, isLoading |-> FALSE]}

\* the auth state changes
AuthChanges ==
    \E state \in AuthStates :
        /\ app.auths < MaxAuths
        /\ state # [user |-> app.user, isLoading |-> app.authLoading]
        /\ OnAuthStateChanged(state.user, state.isLoading)

\* the cards the user clicks
CardInputs == {1}

(* SpecDashboard: the Dashboard while the backend is away: the user starts *)
(* a new video or the first one again, clicks a card, goes back, signs     *)
(* out; a user signs in                                                    *)

\* the videos whose URL is entered
StartInputs == {1, NewestVideo + 1}

NextDashboard ==
    \/ AuthChanges
    \/ \E userId \in Users : DashboardMount(userId)
    \/ \E p \in Callers : LoadChecked(p)
    \/ \E p \in Callers : LoadRecentSessions(p)
    \/ StartNothing
    \/ \E userId \in Users, v \in StartInputs : clock <= MaxStarts /\ DashboardStart(userId, v)
    \/ \E p \in Callers : StartSaved(p)
    \/ \E i \in CardInputs : SessionCardClicked(i)
    \/ HandleBackToDashboard
    \/ \E p \in Callers : StepProbeAnswered(p, "transient")
    \/ \E p \in Callers : StepAnswered(p, FALSE)
    \/ \E p \in Callers : StepResumed(p, TRUE)

SpecDashboard == InitRecent /\ [][NextDashboard]_vars

(* SpecPlayer: while the backend is away, the user starts video v1 from  *)
(* the Dashboard, pauses it in the VideoPlayer, goes back, clicks a card, *)
(* signs out; a user signs in; the text service answers or fails and      *)
(* localStorage takes a write or throws                                   *)

\* newInsight of handlePause, from the parsed answer
NewInsight(videoId, userId, timestamp, now) ==
    [PauseInsight(PlayerSessionId(videoId, userId), timestamp, now) EXCEPT !.user_id = userId]

\* the insight handlePause shows when the answer does not parse or the save raises
FallbackInsight(videoId, userId, timestamp, now) ==
    [ id             |-> <<"insight", now>>,
      session_id     |-> PlayerSessionId(videoId, userId),
      timestamp      |-> timestamp,
      summary        |-> "AI-generated summary will appear here when you pause the video.",
      flashcards     |-> << [question |-> "What is the main topic?",
                             answer |-> "The main topic will be identified from the video content."],
                            [question |-> "What are the key takeaways?",
                             answer |-> "Key takeaways will be summarized automatically."] >>,
      quiz_questions |-> << [question |-> "Sample quiz question",
                             options |-> <<"Option A", "Option B", "Option C", "Option D">>,
                             correct |-> 0] >>,
      user_id        |-> userId,
      created_at     |-> now ]

\* the insights the two media hold for a session id
InsightsStored(sessionId) == Len(LocalInsights(sessionId)) + Len(RemoteInsights(sessionId))

\* what is stored when handlePause(timestamp) is entered, as caller p when
\* it goes on to an await
PausedAt(timestamp, p) ==
    [user |-> app.user, time |-> <<timestamp>>, video |-> app.selected, ai |-> <<>>,
     session |-> StoredFor(app.user[1], app.selected[1]),
     insightsBefore |-> InsightsStored(PlayerSessionId(app.selected[1], app.user[1])),
     savePauseInsight |-> <<>>, saveVideoSession |-> <<>>,
     caller |-> p, done |-> p = 0]

\* the pause that was handled last is the one caller p handles
LastPause(p) == app.paused.caller = p /\ ~app.paused.done

\* onStateChange with PAUSED before 30 seconds: handlePause returns at once
PauseIgnored(timestamp) ==
    /\ PlayerShown
    /\ timestamp < 30
    /\ app' = [app EXCEPT !.paused = PausedAt(timestamp, 0)]
    /\ ComponentStep

\* onStateChange with PAUSED at 30 seconds or later: handlePause runs to its
\* await of generateText
HandlePause(timestamp) ==
    \E p \in Callers :
        /\ FreeSlot(p)
        /\ PlayerShown
        /\ timestamp >= 30
        /\ clock <= MaxPlayerClock
        /\ app' = [app EXCEPT !.paused = PausedAt(timestamp, p),
                              !.handlers[p] =
                                  [name |-> "handlePause", pc |-> "generateText",
                                   arg |-> [videoId |-> app.selected[1],
                                            userId |-> app.user[1],
                                            timestamp |-> timestamp],
                                   live |-> TRUE]]
        /\ clock' = clock + 1
        /\ UNCHANGED <<dbAvailable, db, localStorage, lastOp, lastSaved, nSaved, insightLog,
                       backendUp, flips, twin, twinOut, calls, overlapped>>

\* the fallback insight of the handlePause of caller p
Fallback(p) ==
    FallbackInsight(app.handlers[p].arg.videoId, app.handlers[p].arg.userId,
                    app.handlers[p].arg.timestamp, clock)

\* generateText rejects (the outer catch), or resolves with text that is not
\* the JSON asked for (the inner catch shows the fallback insight)
PauseUnanswered(p, ai) ==
    /\ app.handlers[p].name = "handlePause" /\ app.handlers[p].pc = "generateText"
    /\ app' = [app EXCEPT !.handlers[p] = NoHandler,
                          !.paused = IF LastPause(p)
                                     THEN [@ EXCEPT !.ai = <<ai>>, !.done = TRUE]
                                     ELSE @,
                          !.insights = IF ai = "error" \/ ~app.handlers[p].live THEN @
                                       ELSE <<Fallback(p)>>]
    /\ ComponentStep

\* generateText resolves with the JSON asked for: handlePause runs to its
\* await of savePauseInsight(newInsight)
PauseAnswered(p) ==
    LET newInsight == NewInsight(app.handlers[p].arg.videoId, app.handlers[p].arg.userId,
                                 app.handlers[p].arg.timestamp, clock)
    IN  /\ app.handlers[p].name = "handlePause" /\ app.handlers[p].pc = "generateText"
        /\ Enter(p, "savePauseInsight", newInsight, 0)
        /\ app' = [app EXCEPT !.handlers[p].pc = "save",
                              !.paused = IF LastPause(p)
                                         THEN [@ EXCEPT !.ai = <<"json">>,
                                                        !.savePauseInsight = <<newInsight>>]
                                         ELSE @]

\* handlePause goes on when savePauseInsight has returned: setInsights, or
\* the inner catch with the fallback insight
PauseSaved(p) ==
    /\ app.handlers[p].name = "handlePause" /\ app.handlers[p].pc = "save"
    /\ calls[p].pc = "done"
    /\ app' = [app EXCEPT !.handlers[p] = NoHandler,
                          !.paused = IF LastPause(p) THEN [@ EXCEPT !.done = TRUE] ELSE @,
                          !.insights = IF ~app.handlers[p].live THEN @
                                       ELSE IF calls[p].raised THEN <<Fallback(p)>>
                                       ELSE <<calls[p].arg>>]
    /\ ComponentStep

\* Start Learning with the URL of video v1
PlayerStart ==
    /\ clock <= MaxPlayerClock
    /\ \E userId \in Users : DashboardStart(userId, "v1")

NextPlayer ==
    \/ AuthChanges
    \/ \E userId \in Users : DashboardMount(userId)
    \/ \E p \in Callers : LoadChecked(p)
    \/ \E p \in Callers : LoadRecentSessions(p)
    \/ PlayerStart
    \/ \E p \in Callers : StartSaved(p)
    \/ \E i \in CardInputs : SessionCardClicked(i)
    \/ HandleBackToDashboard
    \/ \E timestamp \in PlayerTimes : PauseIgnored(timestamp)
    \/ \E timestamp \in PlayerTimes : HandlePause(timestamp)
    \/ \E p \in Callers, ai \in AiAnswers \ {"json"} : PauseUnanswered(p, ai)
    \/ \E p \in Callers : PauseAnswered(p)
    \/ \E p \in Callers : PauseSaved(p)
    \/ \E p \in Callers : StepProbeAnswered(p, "transient")
    \/ \E p \in Callers : StepAnswered(p, FALSE)
    \/ \E p \in Callers, writeOk \in BOOLEAN : StepResumed(p, writeOk)

SpecPlayer == InitRecent /\ [][NextPlayer]_vars

-----------------------------------------------------------------------------
(* Properties *)

\* every saveVideoSession that returned so far carried the pair (u, v)
OnlyPairSaved(u, v) ==
    /\ nSaved[u][v] > 0
    /\ \A u2 \in Users, v2 \in Videos : <<u2, v2>> # <<u, v>> => nSaved[u2][v2] = 0

HoldsRecord(list, session) == \E i \in 1..Len(list) : list[i] = session

\* C1: after saveSession calls, each completed before the next starts, that
\* all carry the same (user, video) pair, under any pattern of remote success
\* and failure, each medium holds at most one record for the pair, some medium
\* holds one, and a following listSessions(user) returns exactly one record
\* for it, with the progress and last-watched of the last call.
C1_SamePairOneRecord ==
    \A u \in Users, v \in Videos :
        OnlyPairSaved(u, v) =>
            /\ Len(ForVideo(db.videoSessions, u, v)) <= 1
            /\ Len(ForVideo(LocalSessions(u), u, v)) <= 1
            /\ Len(ForVideo(db.videoSessions, u, v)) + Len(ForVideo(LocalSessions(u), u, v)) >= 1
            /\ Listed(u) =>
                  LET hits == ForVideo(lastOp.ret, u, v)
                  IN  /\ Len(hits) = 1
                      /\ AsSession(hits[1]).progress = lastSaved[u][v][1].progress
                      /\ AsSession(hits[1]).last_watched = lastSaved[u][v][1].last_watched

\* C2: round trip.  After saveSession returned for N sessions of one user with
\* pairwise distinct video ids, a following listSessions(user) returns exactly
\* those N, every field as saved, whatever the backend did meanwhile.
C2_RoundTrip ==
    \A u \in Users :
        (Listed(u) /\ \A v \in Videos : nSaved[u][v] <= 1) =>
            /\ Len(lastOp.ret) = Cardinality({v \in Videos : nSaved[u][v] = 1})
            /\ \A v \in Videos : nSaved[u][v] = 1 =>
                  \E i \in 1..Len(lastOp.ret) : AsSession(lastOp.ret[i]) = lastSaved[u][v][1]

\* C3: with every remote request rejected, no facade call raises and the
\* remote store stays untouched; a save that returns has its record in
\* localStorage; a list returns the list stored under its key, which, when no
\* two calls were in flight together, is exactly what the preceding saves
\* stored: for sessions the last saved session of each video, for insights all
\* saved insights in call order.
C3_OfflineServedLocally ==
    /\ [](/\ db = EmptyDb
          /\ ~lastOp.raised
          /\ \A p \in Callers : ~calls[p].raised)
    /\ [][\A p \in Callers, u \in Users, s \in InsightSessions :
            Returns(p) =>
              /\ (calls'[p].op = "saveVideoSession" /\ calls'[p].arg.user_id = u) =>
                    HoldsRecord(LocalSessions(u)', calls'[p].arg)
              /\ (calls'[p].op = "savePauseInsight" /\ calls'[p].arg.session_id = s) =>
                    /\ LocalInsights(s)' # <<>>
                    /\ LocalInsights(s)'[Len(LocalInsights(s)')] = calls'[p].arg
              /\ (calls'[p].op = "getVideoSessions" /\ calls'[p].arg = u) =>
                    /\ calls'[p].ret = LocalSessions(u)'
                    /\ ~overlapped =>
                          /\ Len(calls'[p].ret) = Cardinality({v \in Videos : nSaved[u][v] > 0})
                          /\ \A v \in Videos : nSaved[u][v] > 0 =>
                                 HoldsRecord(calls'[p].ret, lastSaved[u][v][1])
              /\ (calls'[p].op = "getPauseInsights" /\ calls'[p].arg = s) =>
                    /\ calls'[p].ret = LocalInsights(s)'
                    /\ ~overlapped => calls'[p].ret = insightLog[s]]_vars

\* a list served from localStorage that returns two sessions saved, one call
\* after the other, while the backend was rejecting every request
C3_Witness ==
    /\ lastOp.op = "getVideoSessions"
    /\ lastOp.trace = <<[acc |-> "probe", ok |-> FALSE], [acc |-> "getItem", ok |-> TRUE]>>
    /\ Len(lastOp.ret) = 2
    /\ ~overlapped
    /\ \E v \in Videos : nSaved[lastOp.arg][v] > 1

\* C4: the two storage paths are observably equivalent: given the same calls,
\* one after the other, listSessions returns the same records with the same
\* field values in the same order whether the backend answers every request
\* or is absent.
C4_PathsEquivalent ==
    twinOut.listed => AsSessions(twinOut.up) = AsSessions(twinOut.down)

\* C5: what listSessions returns is ordered by last-watched, most recent first,
\* from either medium.
C5_MostRecentFirst ==
    (lastOp.op = "getVideoSessions" /\ ~lastOp.raised) =>
        \A i \in 1..Len(lastOp.ret), j \in 1..Len(lastOp.ret) :
            i < j => AsSession(lastOp.ret[i]).last_watched >= AsSession(lastOp.ret[j]).last_watched

\* C6: after any sequence of facade calls starting from empty stores,
\* listSessions never returns more than 20 records and no list stored under
\* video_sessions_<userId> holds more than 20.
C6_AtMostTwenty ==
    /\ lastOp.op = "getVideoSessions" => Len(lastOp.ret) <= 20
    /\ \A u \in Users : Len(LocalSessions(u)) <= 20

\* the remote store holds more than 20 sessions of the user and the list just
\* returned 20 of them, while the local list, built from a 21-element list, holds
\* 20 and has dropped one
C6_Witness ==
    /\ lastOp.op = "getVideoSessions"
    /\ Succeeded("videoSessions.list")
    /\ Len(lastOp.ret) = 20
    /\ Len(db.videoSessions) > 20
    /\ Len(LocalSessions("u1")) = 20
    /\ \E i \in 1..Len(db.videoSessions) :
           \A j \in 1..20 : AsSession(LocalSessions("u1")[j]).video_id # db.videoSessions[i].videoId

\* C7: saveInsight is append-only: with the calls made one after the other,
\* in each medium the insights stored for a session before a step of a call
\* are still there after it, in the same order, followed by whatever the call
\* added.
C7_AppendOnly ==
    [][\A s \in InsightSessions :
          /\ IsPrefix(LocalInsights(s), LocalInsights(s)')
          /\ IsPrefix(RemoteInsights(s), RemoteInsights(s)')]_vars

\* C8: listInsights returns the session's insights in ascending order of pause
\* timestamp, whatever the order they were saved in and from either medium.
C8_AscendingPauses ==
    (lastOp.op = "getPauseInsights" /\ ~lastOp.raised) =>
        \A i \in 1..Len(lastOp.ret), j \in 1..Len(lastOp.ret) :
            i < j => PauseOf(lastOp.ret[i]) <= PauseOf(lastOp.ret[j])

\* C9: listSessions and listInsights never raise; when the item under the local
\* key is absent or not decodable and the call reads it, it returns the empty list.
C9_ListsNeverRaise ==
    lastOp.op \in {"getVideoSessions", "getPauseInsights"} =>
        /\ ~lastOp.raised
        /\ LET k == IF lastOp.op = "getVideoSessions" THEN VideoSessionsKey(lastOp.arg)
                    ELSE PauseInsightsKey(lastOp.arg)
           IN  (Idle /\ localStorage[k] \in {NullItem, GarbageItem}
                    /\ (Succeeded("getItem") \/ Failed("getItem"))) => lastOp.ret = <<>>

\* C10: saveSession and saveInsight raise only when the localStorage write
\* fails; a rejected probe or remote request, or an absent or undecodable
\* stored item, is never surfaced.
C10_SavesRaiseOnlyOnWriteFailure ==
    (lastOp.op \in {"saveVideoSession", "savePauseInsight"} /\ lastOp.raised) =>
        Failed("setItem")

\* C11: when the probe of a listSessions or listInsights call succeeds and its
\* remote query then fails, that same call sets the flag to false and returns
\* the content of localStorage for the key, without a further request; the
\* flag is false when the call returns.  Other calls may be in flight.
C11_QueryFailureFallsThrough ==
    [][\A p \in Callers, u \in Users, s \in InsightSessions :
          /\ (/\ Returns(p)
              /\ calls'[p].op = "getVideoSessions" /\ calls'[p].arg = u
              /\ Did(calls'[p], "probe", TRUE)
              /\ Did(calls'[p], "videoSessions.list", FALSE)) =>
                 /\ ~calls'[p].raised
                 /\ ~dbAvailable'
                 /\ calls'[p].ret = LocalSessions(u)'
                 /\ calls'[p].trace = <<[acc |-> "probe", ok |-> TRUE],
                                        [acc |-> "videoSessions.list", ok |-> FALSE],
                                        [acc |-> "getItem", ok |-> TRUE]>>
          /\ (/\ Returns(p)
              /\ calls'[p].op = "getPauseInsights" /\ calls'[p].arg = s
              /\ Did(calls'[p], "probe", TRUE)
              /\ Did(calls'[p], "pauseInsights.list", FALSE)) =>
                 /\ ~calls'[p].raised
                 /\ ~dbAvailable'
                 /\ calls'[p].ret = LocalInsights(s)'
                 /\ calls'[p].trace = <<[acc |-> "probe", ok |-> TRUE],
                                        [acc |-> "pauseInsights.list", ok |-> FALSE],
                                        [acc |-> "getItem", ok |-> TRUE]>>]_vars

\* a listSessions entered with the flag true whose probe succeeded and whose
\* query was rejected has just returned: it returned the stored local list,
\* which is not what the remote store holds, and the flag is false
C11_Witness ==
    /\ lastOp.op = "getVideoSessions"
    /\ lastOp.entry
    /\ Succeeded("probe") /\ Failed("videoSessions.list")
    /\ Len(lastOp.ret) >= 1
    /\ lastOp.ret = LocalSessions("u1")
    /\ Len(db.videoSessions) # Len(lastOp.ret)
    /\ ~dbAvailable

\* no other caller has a call in flight
Alone(p) == \A q \in Callers \ {p} : calls[q].pc = "done"

\* C12: checkAvailability called by itself sets the flag to true and returns
\* true when the probe request succeeds, sets it to false and returns false
\* when it is rejected, whatever the kind of rejection and whatever the flag
\* was; it touches neither store, and run on its own after a call of itself
\* that got the same answer it gives the same flag and result.
C12_ProbeSetsFlag ==
    [][\A p \in Callers :
          (Returns(p) /\ calls'[p].op = "checkDatabaseAvailability") =>
             /\ ~calls'[p].raised
             /\ calls'[p].ret = <<calls'[p].arg = "ok">>
             /\ dbAvailable' = (calls'[p].arg = "ok")
             /\ calls'[p].trace = <<[acc |-> "probe", ok |-> calls'[p].arg = "ok"]>>
             /\ UNCHANGED <<db, localStorage>>
             /\ (/\ Alone(p)
                 /\ lastOp.op = "checkDatabaseAvailability"
                 /\ lastOp.arg = calls'[p].arg) =>
                    (dbAvailable' = dbAvailable /\ calls'[p].ret = lastOp.ret)]_vars

\* the probe called by itself while the flag was true, rejected with an error
\* that is not "database not found"
C12_Witness ==
    /\ lastOp.op = "checkDatabaseAvailability"
    /\ lastOp.arg = "transient"
    /\ lastOp.entry
    /\ lastOp.ret = <<FALSE>>
    /\ ~dbAvailable

FacadeOps == {"getVideoSessions", "saveVideoSession", "getPauseInsights", "savePauseInsight"}
RemoteRequests == {"videoSessions.list", "videoSessions.update", "videoSessions.create",
                   "pauseInsights.list", "pauseInsights.create"}

\* C13: every listSessions, saveSession, listInsights and saveInsight call
\* starts with a probe, before any other remote request and any localStorage
\* access, whatever the flag was on entry; when that probe succeeds the next
\* thing the call does is its remote request.
C13_ProbeFirst ==
    \A p \in Callers :
        (calls[p].op \in FacadeOps /\ calls[p].pc = "done") =>
            /\ Len(calls[p].trace) >= 2
            /\ calls[p].trace[1].acc = "probe"
            /\ calls[p].trace[1].ok => calls[p].trace[2].acc \in RemoteRequests
            /\ ~calls[p].trace[1].ok => calls[p].trace[2].acc \in {"probe", "getItem"}

\* C14: isAvailable returns the flag as it is and changes nothing: no probe or
\* other request, the flag, the remote store and localStorage unchanged.  The
\* flag is true before the first operation.
C14_PureAccessor ==
    /\ [](/\ (lastOp.op = "none" /\ \A p \in Callers : calls[p].op = "none") => dbAvailable
          /\ \A p \in Callers :
                calls[p].op = "isDatabaseAvailable" =>
                    /\ ~calls[p].raised
                    /\ calls[p].ret = <<calls[p].entry>>
                    /\ calls[p].trace = <<>>)
    /\ [][\A p \in Callers :
            (calls'[p] # calls[p] /\ calls'[p].op = "isDatabaseAvailable") =>
                /\ UNCHANGED <<dbAvailable, db, localStorage>>
                /\ calls'[p].ret = <<dbAvailable>>]_vars

\* the accessor answering false while the remote store holds a session
C14_Witness ==
    /\ lastOp.op = "isDatabaseAvailable"
    /\ lastOp.ret = <<FALSE>>
    /\ ~lastOp.entry
    /\ db.videoSessions # <<>>

SessionFields == {"id", "video_id", "title", "thumbnail", "progress", "duration",
                  "last_watched", "user_id"}
InsightFields == {"id", "session_id", "timestamp", "summary", "flashcards",
                  "quiz_questions", "user_id", "created_at"}

\* C15: the field-name translation is bidirectional: what listSessions and
\* listInsights return from the remote store carries the in-memory field
\* names (video_id, last_watched, user_id, session_id, quiz_questions,
\* created_at), and a session saved once through the remote path comes back
\* equal to the session that was saved.
C15_ReadBackUnderMemoryNames ==
    /\ (lastOp.op = "getVideoSessions" /\ Succeeded("videoSessions.list")) =>
          \A i \in 1..Len(lastOp.ret) :
              /\ DOMAIN lastOp.ret[i] = SessionFields
              /\ nSaved[lastOp.arg][AsSession(lastOp.ret[i]).video_id] = 1 =>
                     lastOp.ret[i] = lastSaved[lastOp.arg][AsSession(lastOp.ret[i]).video_id][1]
    /\ (lastOp.op = "getPauseInsights" /\ Succeeded("pauseInsights.list")) =>
          \A i \in 1..Len(lastOp.ret) : DOMAIN lastOp.ret[i] = InsightFields

\* the fields of a stored session that a later save of the same pair must keep
Identity(r) ==
    [ id |-> AsSession(r).id, video_id |-> AsSession(r).video_id,
      thumbnail |-> AsSession(r).thumbnail, user_id |-> AsSession(r).user_id ]

\* C16: when saveSession is called for a (user, video) pair that has a stored
\* record, the record keeps its id, its video id and every field other than
\* title, progress, duration and last-watched, in the remote store and in
\* localStorage alike.
C16_UpdateKeepsIdentity ==
    [][\A p \in Callers, u \in Users, v \in Videos :
          (/\ Returns(p)
           /\ calls'[p].op = "saveVideoSession"
           /\ ~calls'[p].raised
           /\ calls'[p].arg.user_id = u
           /\ calls'[p].arg.video_id = v) =>
              /\ (Len(ForVideo(db.videoSessions, u, v)) = 1
                    /\ Len(ForVideo(db.videoSessions', u, v)) = 1) =>
                     Identity(ForVideo(db.videoSessions', u, v)[1])
                         = Identity(ForVideo(db.videoSessions, u, v)[1])
              /\ (Len(ForVideo(LocalSessions(u), u, v)) = 1
                    /\ Len(ForVideo(LocalSessions(u)', u, v)) = 1) =>
                     Identity(ForVideo(LocalSessions(u)', u, v)[1])
                         = Identity(ForVideo(LocalSessions(u), u, v)[1])]_vars

\* the list C17 expects under the user's key: the stored list with the session
\* put in the place of the record of its video, or in front when there is none,
\* cut to 20
Upserted(list, session) ==
    LET hit == {i \in 1..Len(list) : AsSession(list[i]).video_id = session.video_id}
        first == CHOOSE i \in hit : \A j \in hit : i <= j
        changed == IF hit = {} THEN <<session>> \o list
                   ELSE [list EXCEPT ![first] = session]
    IN  SubSeq(changed, 1, Min(Len(changed), 20))

\* C17: on the local path of saveSession and saveInsight the value written
\* under the local key is the list stored there before, with the session
\* replaced or prepended and the result cut to 20 (the insight appended),
\* also when the backend answers again during the call.
C17_LocalListIsTheStoredList ==
    [][\A p \in Callers :
         /\ \A u \in Users :
              (/\ Returns(p)
               /\ calls'[p].op = "saveVideoSession"
               /\ calls'[p].arg.user_id = u
               /\ Did(calls'[p], "setItem", TRUE)) =>
                  LocalSessions(u)' = Upserted(LocalSessions(u), calls'[p].arg)
         /\ \A s \in InsightSessions :
              (/\ Returns(p)
               /\ calls'[p].op = "savePauseInsight"
               /\ calls'[p].arg.session_id = s
               /\ Did(calls'[p], "setItem", TRUE)) =>
                  LocalInsights(s)' = Append(LocalInsights(s), calls'[p].arg)]_vars

\* C19: the retained set is the most recent 20: when a saveSession on the
\* local path adds a 21st record to the user's list, the record dropped is the
\* one with the oldest last-watched among the 21.
C19_OldestDropped ==
    [][\A p \in Callers :
        (/\ Returns(p)
         /\ calls'[p].op = "saveVideoSession"
         /\ Did(calls'[p], "setItem", TRUE)
         /\ Len(LocalSessions("u1")) = 20
         /\ ForVideo(LocalSessions("u1"), "u1", calls'[p].arg.video_id) = <<>>) =>
            LET all == <<calls'[p].arg>> \o LocalSessions("u1")
                dropped == {i \in 1..Len(all) :
                               ForVideo(LocalSessions("u1")', "u1", all[i].video_id) = <<>>}
            IN  /\ Cardinality(dropped) = 1
                /\ \A i \in dropped, j \in 1..Len(all) :
                       all[i].last_watched <= all[j].last_watched]_vars

\* two saveSession calls of one user for different videos that have both
\* returned after writing localStorage, `last` having written after `first`
BothStored(first, last) ==
    /\ first # last
    /\ calls[first].op = "saveVideoSession" /\ calls[first].pc = "done"
    /\ calls[last].op = "saveVideoSession" /\ calls[last].pc = "done"
    /\ calls[first].arg.user_id = calls[last].arg.user_id
    /\ calls[first].arg.video_id # calls[last].arg.video_id
    /\ 0 < calls[first].wrote
    /\ calls[first].wrote < calls[last].wrote

\* C18: lost update.  Two saveSession calls of one user for different videos,
\* in flight together and both storing locally, both return; the stored list
\* then holds the record of the call that wrote last, and holds the record of
\* the other call only if the last writer got its list after the other had
\* written, so the list can end up with one of the two records.
C18_LastWriterOverwrites ==
    \A first \in Callers, last \in Callers :
        BothStored(first, last) =>
            LET stored == LocalSessions(calls[last].arg.user_id)
            IN  /\ HoldsRecord(stored, calls[last].arg)
                /\ HoldsRecord(stored, calls[first].arg)
                       <=> HoldsRecord(calls[last].sessions, calls[first].arg)

\* both calls found the backend away at both of their probes, both returned,
\* and the stored list holds one record: that of the call that wrote last
C18_Witness ==
    \E first \in Callers, last \in Callers :
        /\ BothStored(first, last)
        /\ calls[first].paths = <<"local", "local">>
        /\ calls[last].paths = <<"local", "local">>
        /\ LocalSessions(calls[last].arg.user_id) = <<calls[last].arg>>

\* C20: with several calls in flight, each call chooses its path from its own
\* probe: it sends its remote request exactly when the probe it issued itself
\* succeeded and goes to localStorage exactly when that probe failed, whatever
\* the probes of the other calls answered.
C20_OwnProbeDecides ==
    \A p \in Callers :
        \A i \in 1..Len(calls[p].paths) :
            calls[p].paths[i] = IF calls[p].probes[i] THEN "remote" ELSE "local"

\* C22: starting a video from the dashboard calls saveSession, with a fresh
\* session, only when no session is stored for the user and that video; when
\* one is stored, the start leaves its id and progress as they were.
C22_StartSavesOnlyNewVideos ==
    (app.started.done /\ app.started.before # <<>>) =>
        /\ app.started.saved = <<>>
        /\ \A i \in 1..Len(StoredFor(app.started.user[1], app.started.video[1])) :
               \E j \in 1..Len(app.started.before) :
                   /\ AsSession(StoredFor(app.started.user[1], app.started.video[1])[i]).id
                          = AsSession(app.started.before[j]).id
                   /\ AsSession(StoredFor(app.started.user[1], app.started.video[1])[i]).progress
                          = AsSession(app.started.before[j]).progress

\* C21: when a session is stored for the user and the video, a pause of that
\* video is followed by a saveSession call, and the stored session then has
\* the pause's playback time as its progress and the pause's time as its
\* last-watched.
C21_PauseUpdatesSession ==
    (app.paused.done /\ app.paused.time # <<>> /\ app.paused.session # <<>>) =>
        /\ Len(app.paused.saveVideoSession) = 1
        /\ \A i \in 1..Len(StoredFor(app.paused.user[1], app.paused.video[1])) :
               AsSession(StoredFor(app.paused.user[1], app.paused.video[1])[i]).progress = app.paused.time[1]

\* C23: a pause below 30 seconds makes no saveInsight call; a pause at 30
\* seconds or later makes exactly one, and when its handler has returned the
\* player's session has at least one more insight stored than before the pause
\* (exactly one more when no other pause was handled meanwhile).
C23_OneInsightPerQualifyingPause ==
    (app.paused.done /\ app.paused.time # <<>>) =>
        IF app.paused.time[1] < 30
        THEN app.paused.savePauseInsight = <<>>
        ELSE /\ Len(app.paused.savePauseInsight) = 1
             /\ InsightsStored(PlayerSessionId(app.paused.video[1], app.paused.user[1]))
                    >= app.paused.insightsBefore + 1

RemoteWrites == {"videoSessions.update", "videoSessions.create", "pauseInsights.create"}
WroteRemotely(trace) ==
    \E i \in 1..Len(trace) : trace[i].acc \in RemoteWrites /\ trace[i].ok

\* the localStorage key a save writes
OwnKey(call) ==
    IF call.op = "saveVideoSession" THEN VideoSessionsKey(call.arg.user_id)
    ELSE PauseInsightsKey(call.arg.session_id)

\* C24: a save writes to one medium. A saveSession or saveInsight whose remote
\* write succeeds never writes localStorage; one that ends on the local path
\* leaves the remote store and every item other than video_sessions_<user_id>
\* (pause_insights_<session_id>) as they were; no step of a listSessions or
\* listInsights changes either medium.  Other calls may be in flight.
C24_OneMediumPerSave ==
    [][\A p \in Callers :
          (calls'[p] # calls[p] /\ calls'[p].op \in FacadeOps) =>
             /\ calls'[p].op \in {"getVideoSessions", "getPauseInsights"} =>
                    db' = db /\ localStorage' = localStorage
             /\ db' # db =>
                    /\ WroteRemotely(calls'[p].trace)
                    /\ localStorage' = localStorage
             /\ localStorage' # localStorage =>
                    /\ ~WroteRemotely(calls'[p].trace)
                    /\ db' = db
                    /\ \A k \in Keys \ {OwnKey(calls'[p])} : localStorage'[k] = localStorage[k]
             /\ (Returns(p) /\ WroteRemotely(calls'[p].trace)) =>
                    /\ calls'[p].writes = 0
                    /\ ~Did(calls'[p], "setItem", TRUE)]_vars

\* a saveInsight has just written its own item on the local path while the
\* sessions item of u1 holds a list
C24_Witness ==
    /\ lastOp.op = "savePauseInsight"
    /\ ~WroteRemotely(lastOp.trace)
    /\ Succeeded("setItem")
    /\ LocalSessions("u1") # <<>>
    /\ LocalInsights(lastOp.arg.session_id) = <<lastOp.arg>>

\* src: the requests one call of a method sends at most, its probes included
MaxRequests == [getVideoSessions |-> 2, getPauseInsights |-> 2,
                saveVideoSession |-> 5, savePauseInsight |-> 4, none |-> 0]

\* C25: a call of a facade method sends at most 2 (listSessions, listInsights),
\* 5 (saveSession) or 4 (saveInsight) remote requests and writes localStorage
\* at most once; when every request it sent is answered, with success or with
\* failure, the call ends.
C25_BoundedAndTerminating ==
    /\ [](\A p \in Callers : /\ calls[p].sent <= MaxRequests[calls[p].op]
                             /\ calls[p].writes <= 1)
    /\ \A p \in Callers : (calls[p].pc # "done") ~> (calls[p].pc = "done")

\* a saveSession has ended after five requests and one local write
C25_Witness ==
    \E p \in Callers :
        /\ calls[p].op = "saveVideoSession"
        /\ calls[p].pc = "done"
        /\ calls[p].sent = 5
        /\ calls[p].writes = 1

====
